---- MODULE Spec2Model ----
(***************************************************************************)
(* Construction of the WildRydes CDK stack.                                *)
(*                                                                         *)
(* app.py creates an application container, constructs WildRydesCdkStack   *)
(* in it and calls synth().  The stack constructor is a straight line of   *)
(* statements; each statement is one action below.  A statement first      *)
(* evaluates its arguments (reads of local names), then inserts constructs *)
(* into the tree, then binds its target name.  An exception stops the run  *)
(* where it was raised.                                                    *)
(*                                                                         *)
(* Every run of the entry point is a separate process with its own         *)
(* container; Runs are independent runs of app.py.                         *)
(***************************************************************************)
EXTENDS Integers, Sequences, FiniteSets, TLC

NumRuns == 2
Runs == 1..NumRuns

VARIABLES
    pc,        \* pc[r]: the statement run r executes next
    app,       \* app[r]: construct tree of run r's container, path -> node
    locals,    \* locals[r]: bound local names of the constructor, name -> value
    err,       \* err[r]: "none" or the exception that ended the run
    assembly   \* assembly[r]: <<>> until synth, then <<rendered tree>>

vars == <<pc, app, locals, err, assembly>>

-----------------------------------------------------------------------------
(* Statements of app.py and of WildRydesCdkStack.__init__, in program order. *)

StepOrder == <<
    "app", "super_init", "amplify_repo", "app_repo", "amplify_role",
    "amplify_static_site", "master", "amplify_policy", "rides_table",
    "request_unicorn_role", "grant_write_data", "request_unicorn",
    "ride_api_gw", "ride_api_gw_lambda_integration", "post_ride_resource",
    "post_ride_resource_method", "ride_api_gw_authorizer",
    "post_ride_resource_fix", "override_authorization_type",
    "override_authorizer_id", "options_method", "amplify_repo_url",
    "app_repo_url", "amplify_default_domain", "request_unicorn_apigw",
    "synth", "done" >>

Steps == {StepOrder[i] : i \in DOMAIN StepOrder}

Idx(step) == CHOOSE i \in DOMAIN StepOrder : StepOrder[i] = step

NextStep(step) == StepOrder[Idx(step) + 1]

(* Local names each statement reads while evaluating its arguments. *)
ReadsNone == [s \in Steps |-> {}]

Reads == [ReadsNone EXCEPT
    !["amplify_static_site"]            = {"amplify_repo", "amplify_role"},
    !["master"]                         = {"amplify_static_site"},
    !["amplify_policy"]                 = {"amplify_role", "amplify_repo"},
    !["grant_write_data"]               = {"rides_table", "request_unicorn_role"},
    !["request_unicorn"]                = {"request_unicorn_role"},
    !["ride_api_gw_lambda_integration"] = {"request_unicorn"},
    !["post_ride_resource"]             = {"ride_api_gw"},
    !["post_ride_resource_method"]      = {"post_ride_resource", "ride_api_gw_lambda_integration"},
    !["ride_api_gw_authorizer"]         = {"ride_api_gw"},
    !["post_ride_resource_fix"]         = {"post_ride_resource_method"},
    !["override_authorization_type"]    = {"post_ride_resource_fix"},
    !["override_authorizer_id"]         = {"post_ride_resource_fix", "ride_api_gw_authorizer"},
    !["options_method"]                 = {"post_ride_resource"},
    !["amplify_repo_url"]               = {"amplify_repo"},
    !["app_repo_url"]                   = {"app_repo"},
    !["amplify_default_domain"]         = {"amplify_static_site"},
    !["request_unicorn_apigw"]          = {"request_unicorn_apigw"}]

-----------------------------------------------------------------------------
(* Construct identifiers passed as the second argument of each construct. *)

ConstructIdM == [
    stack                   |-> "wild-rydes-cdk",
    amplify_repo            |-> "amplify-wild-rydes-repo",
    app_repo                |-> "amplify-wild-rydes-repo",
    amplify_role            |-> "amplify-wild-rydes-role",
    amplify_static_site     |-> "amplify-wild-rydes-site",
    master                  |-> "master",
    amplify_policy          |-> "amplify-wild-rydes-policy",
    rides_table             |-> "Table",
    request_unicorn_role    |-> "RequestUnicornRole",
    request_unicorn         |-> "request-unicorn",
    ride_api_gw             |-> "wild-rydes-apigw",
    post_ride_resource      |-> "ride",
    post_method             |-> "POST",
    options_method          |-> "OPTIONS",
    ride_api_gw_authorizer  |-> "wild-rydes-apigw-authorizer",
    amplify_repo_url        |-> "amplify-repo-url",
    app_repo_url            |-> "app-repo-url",
    amplify_default_domain  |-> "amplify-default-domain",
    request_unicorn_apigw   |-> "request-unicorn-apigw"]

ConstructId == [
    stack                   |-> "wild-rydes-cdk",
    amplify_repo            |-> "amplify-wild-rydes-repo",
    app_repo                |-> "app-serverless-workshop-repo",
    amplify_role            |-> "amplify-wild-rydes-role",
    amplify_static_site     |-> "amplify-wild-rydes-site",
    master                  |-> "master",
    amplify_policy          |-> "amplify-wild-rydes-policy",
    rides_table             |-> "Table",
    request_unicorn_role    |-> "RequestUnicornRole",
    request_unicorn         |-> "request-unicorn",
    ride_api_gw             |-> "wild-rydes-apigw",
    post_ride_resource      |-> "ride",
    post_method             |-> "POST",
    options_method          |-> "OPTIONS",
    ride_api_gw_authorizer  |-> "wild-rydes-apigw-authorizer",
    amplify_repo_url        |-> "amplify-repo-url",
    app_repo_url            |-> "app-repo-url",
    amplify_default_domain  |-> "amplify-default-domain",
    request_unicorn_apigw   |-> "request-unicorn-apigw"]

(* Path of the stack in the container, and of a child of a scope. *)
StackPath == << ConstructId.stack >>

Child(scope, id) == Append(scope, id)

-----------------------------------------------------------------------------
(* Values that stand for strings: literals and unresolved tokens. *)

Lit(s) == [token |-> "Literal", of |-> <<>>, attr |-> s]

Attr(path, a) == [token |-> "GetAtt", of |-> path, attr |-> a]

Ref(path) == [token |-> "Ref", of |-> path, attr |-> ""]

LogicalId(path) == [token |-> "LogicalId", of |-> path, attr |-> ""]

NoOverrides == << >>

(* add_property_override: record the override on the low-level resource. *)
AddPropertyOverride(node, prop, value) ==
    [node EXCEPT !.overrides = (prop :> value) @@ node.overrides]

(* Properties of a resource as rendered: overrides win over declared props. *)
Rendered(node) ==
    [p \in (DOMAIN node.props) \cup (DOMAIN node.overrides) |->
        IF p \in DOMAIN node.overrides THEN node.overrides[p] ELSE node.props[p]]

HasNode(g, path) == path \in DOMAIN g

AddNodes(g, new) == new @@ g

Bind(l, name, value) == (name :> value) @@ l

-----------------------------------------------------------------------------
(* Arguments of the constructs, as written in the constructor. *)

AllowOriginHeader  == "method.response.header.Access-Control-Allow-Origin"
AllowHeadersHeader == "method.response.header.Access-Control-Allow-Headers"
AllowMethodsHeader == "method.response.header.Access-Control-Allow-Methods"

AmplifyRepoProps == [
    repository_name |-> "amplify-wild-rydes",
    description     |-> "Repo for the Wild Rydes static site for Amplify"]

AppRepoProps == [
    repository_name |-> "app-wild-rydes-serverless-workshop",
    description     |-> "Repo for project from webapp.serverlessworkshops.io/staticwebhosting/overview/"]

AmplifyRoleProps == [
    role_name        |-> "amplify-wild-rydes-role",
    assumed_by       |-> "amplify.amazonaws.com",
    managed_policies |-> << >>]

AmplifySiteProps(repo, role) == [
    source_code_provider |-> [provider |-> "CodeCommit", repository |-> repo],
    description          |-> "Wild Rydes Amplify Static Site",
    role                 |-> role,
    app_name             |-> "wild-rydes-site"]

AmplifyPolicyStatementsM(repo) == <<
    [effect    |-> "Allow",
     actions   |-> {<<"codecommit", "GitPull">>},
     resources |-> {Attr(repo, "Arn")}],
    [effect    |-> "Allow",
     actions   |-> {<<"amplify", "GetApp">>, <<"amplify", "CreateBackendEnvironment">>,
                    <<"cloudformation", "*">>, <<"cognito", "*">>, <<"lambda", "*">>,
                    <<"s3", "*">>, <<"iam", "*">>, <<"dynamodb", "*">>},
     resources |-> {Lit("*")}] >>

AmplifyPolicyStatements(repo) == <<
    [effect    |-> "Allow",
     actions   |-> {<<"codecommit", "GitPull">>},
     resources |-> {Attr(repo, "Arn")}],
    [effect    |-> "Allow",
     actions   |-> {<<"amplify", "GetApp">>, <<"amplify", "CreateBackendEnvironment">>,
                    <<"cloudformation", "*">>, <<"cognito", "*">>, <<"lambda", "*">>,
                    <<"s3", "*">>, <<"iam", "*">>},
     resources |-> {Lit("*")}] >>

RidesTablePropsM == [
    table_name     |-> "Rides",
    partition_key  |-> [name |-> "RideId", type |-> "STRING"],
    removal_policy |-> "RETAIN"]

RidesTableProps == [
    table_name     |-> "Rides",
    partition_key  |-> [name |-> "RideId", type |-> "STRING"],
    removal_policy |-> "DESTROY"]

RequestUnicornRoleProps == [
    role_name        |-> "wild-rydes-lambda-role",
    assumed_by       |-> "lambda.amazonaws.com",
    managed_policies |-> << "service-role/AWSLambdaBasicExecutionRole" >>]

(* The statement grant_write_data adds to the grantee's default policy. *)
WriteDataActions == {<<"dynamodb", "BatchWriteItem">>, <<"dynamodb", "PutItem">>,
                     <<"dynamodb", "UpdateItem">>, <<"dynamodb", "DeleteItem">>}

WriteDataStatement(table) == [
    effect    |-> "Allow",
    actions   |-> WriteDataActions,
    resources |-> {Attr(table, "Arn")}]

RequestUnicornProps(role) == [
    handler       |-> "requestUnicorn.handler",
    runtime       |-> "nodejs12.x",
    code          |-> "request_unicorn",
    role          |-> role,
    function_name |-> "request-unicorn-wild-rydes"]

RideApiGwProps == [
    rest_api_name  |-> "WildRydes",
    endpoint_types |-> << "REGIONAL" >>]

LambdaIntegrationM(handler) == [
    kind    |-> "Lambda",
    handler |-> handler,
    proxy   |-> FALSE,
    integration_responses |-> <<
        [statusCode |-> "200",
         responseParameters |-> (AllowOriginHeader :> "'*'")] >>]

LambdaIntegration(handler) == [
    kind    |-> "Lambda",
    handler |-> handler,
    proxy   |-> TRUE,
    integration_responses |-> <<
        [statusCode |-> "200",
         responseParameters |-> (AllowOriginHeader :> "'*'")] >>]

PostMethodResponses == <<
    [statusCode |-> "200",
     responseParameters |-> (AllowOriginHeader :> TRUE)] >>

MockIntegration == [
    kind |-> "Mock",
    integration_responses |-> <<
        [statusCode |-> "200",
         responseParameters |->
             (AllowHeadersHeader :> "'Content-Type,X-Amz-Date,Authorization,X-Api-Key,X-Amz-Security-Token'")
             @@ (AllowOriginHeader :> "'*'")
             @@ (AllowMethodsHeader :> "'POST,OPTIONS'")] >>,
    passthrough_behavior |-> "WHEN_NO_MATCH",
    request_templates    |-> ("application/json" :> "{\"statusCode\":200}")]

OptionsMethodResponses == <<
    [statusCode |-> "200",
     responseParameters |->
         (AllowHeadersHeader :> TRUE) @@ (AllowMethodsHeader :> TRUE)
         @@ (AllowOriginHeader :> TRUE)] >>

AuthorizerProps(api) == [
    RestApiId                    |-> Ref(api),
    Name                         |-> "wild-rydes-apigw-authorizer",
    Type                         |-> "COGNITO_USER_POOLS",
    IdentitySource               |-> "method.request.header.name.Authorization",
    IdentityValidationExpression |-> "Bearer (.*)",
    ProviderArns                 |-> << "arn:aws:cognito-idp:us-east-1:<ACCOUNT_ID>:userpool/<USER_POOL_ID>" >>]

(* Resource.add_method(http_method, integration, method_responses): a Method *)
(* construct named after the verb, holding the low-level method 'Resource'.  *)
MethodNodes(g, resource, id, verb, integration, responses) ==
    (Child(resource, id) :>
        [type |-> "apigateway.Method",
         props |-> [http_method |-> verb, resource |-> resource],
         overrides |-> NoOverrides])
    @@
    (Child(Child(resource, id), "Resource") :>
        [type |-> "AWS::ApiGateway::Method",
         props |-> [HttpMethod        |-> verb,
                    ResourceId        |-> Ref(resource),
                    RestApiId         |-> Ref(g[resource].props.rest_api),
                    AuthorizationType |-> "NONE",
                    Integration       |-> integration,
                    MethodResponses   |-> responses],
         overrides |-> NoOverrides])

Node(type, props) == [type |-> type, props |-> props, overrides |-> NoOverrides]

EmptyTree == [p \in {} |-> {}]

-----------------------------------------------------------------------------
(* Execution of one statement. *)

Raise(r, kind) ==
    /\ err' = [err EXCEPT ![r] = kind]
    /\ UNCHANGED <<pc, app, locals, assembly>>

Advance(r) == pc' = [pc EXCEPT ![r] = NextStep(pc[r])]

At(r, step) == pc[r] = step /\ err[r] = "none"

ArgsBound(r, step) == Reads[step] \subseteq DOMAIN locals[r]

(* name = Construct(scope, id, ...): evaluate the arguments, insert the new *)
(* nodes (the scope rejects an id it already holds), bind the target name.  *)
Declare(r, step, new, name, value) ==
    /\ At(r, step)
    /\ IF ~ArgsBound(r, step) THEN Raise(r, "UnboundLocalError")
       ELSE IF (DOMAIN new) \cap (DOMAIN app[r]) # {} THEN Raise(r, "DuplicateId")
       ELSE /\ app' = [app EXCEPT ![r] = AddNodes(@, new)]
            /\ locals' = [locals EXCEPT ![r] = Bind(@, name, value)]
            /\ Advance(r)
            /\ UNCHANGED <<err, assembly>>

-----------------------------------------------------------------------------
(* app.py *)

(* Module-level statements of app.py around the stack construction:        *)
(* line 8 creates the container, line 11 synthesizes it.                    *)
AppModule(r) ==
    /\ pc[r] \in {"app", "synth"}
    /\ err[r] = "none"
    /\ IF pc[r] = "app"
       THEN /\ app' = [app EXCEPT ![r] = AddNodes(@, << >> :> Node("App", << >>))]
            /\ UNCHANGED assembly
       ELSE /\ assembly' = [assembly EXCEPT ![r] =
                   << [p \in DOMAIN app[r] |->
                          [type |-> app[r][p].type, props |-> Rendered(app[r][p])]] >>]
            /\ UNCHANGED app
    /\ Advance(r)
    /\ UNCHANGED <<locals, err>>

-----------------------------------------------------------------------------
(* WildRydesCdkStack.__init__ *)

SuperInit(r) ==
    /\ At(r, "super_init")
    /\ IF HasNode(app[r], StackPath) THEN Raise(r, "DuplicateId")
       ELSE /\ app' = [app EXCEPT ![r] =
                   AddNodes(@, StackPath :> Node("Stack", [construct_id |-> ConstructId.stack]))]
            /\ Advance(r)
            /\ UNCHANGED <<locals, err, assembly>>

AmplifyRepoM(r) ==
    LET path == Child(StackPath, ConstructId.amplify_repo)
        props == IF r = 1 THEN AmplifyRepoProps
                 ELSE [AmplifyRepoProps EXCEPT !.repository_name = "amplify-wild-rydes-2"] IN
    Declare(r, "amplify_repo",
            path :> Node("codecommit.Repository", props),
            "amplify_repo", path)

AmplifyRepo(r) ==
    LET path == Child(StackPath, ConstructId.amplify_repo) IN
    Declare(r, "amplify_repo",
            path :> Node("codecommit.Repository", AmplifyRepoProps),
            "amplify_repo", path)

AppRepo(r) ==
    LET path == Child(StackPath, ConstructId.app_repo) IN
    Declare(r, "app_repo",
            path :> Node("codecommit.Repository", AppRepoProps),
            "app_repo", path)

AmplifyRole(r) ==
    LET path == Child(StackPath, ConstructId.amplify_role) IN
    Declare(r, "amplify_role",
            path :> Node("iam.Role", AmplifyRoleProps),
            "amplify_role", path)

AmplifyStaticSite(r) ==
    LET path == Child(StackPath, ConstructId.amplify_static_site) IN
    Declare(r, "amplify_static_site",
            path :> Node("amplify.App",
                         AmplifySiteProps(locals[r]["amplify_repo"], locals[r]["amplify_role"])),
            "amplify_static_site", path)

(* amplify_static_site.add_branch("master") *)
Master(r) ==
    LET site == locals[r]["amplify_static_site"]
        path == Child(site, ConstructId.master) IN
    Declare(r, "master",
            path :> Node("amplify.Branch", [app |-> site, branch_name |-> ConstructId.master]),
            "master", path)

AmplifyPolicy(r) ==
    LET path == Child(StackPath, ConstructId.amplify_policy) IN
    Declare(r, "amplify_policy",
            path :> Node("iam.Policy",
                         [roles      |-> {locals[r]["amplify_role"]},
                          statements |-> AmplifyPolicyStatements(locals[r]["amplify_repo"])]),
            "amplify_policy", path)

RidesTable(r) ==
    LET path == Child(StackPath, ConstructId.rides_table) IN
    Declare(r, "rides_table",
            path :> Node("dynamodb.Table", RidesTableProps),
            "rides_table", path)

RequestUnicornRole(r) ==
    LET path == Child(StackPath, ConstructId.request_unicorn_role) IN
    Declare(r, "request_unicorn_role",
            path :> Node("iam.Role", RequestUnicornRoleProps),
            "request_unicorn_role", path)

(* rides_table.grant_write_data(request_unicorn_role): the statement goes      *)
(* into the grantee's default policy, which is created on first use.          *)
GrantWriteData(r) ==
    /\ At(r, "grant_write_data")
    /\ IF ~ArgsBound(r, "grant_write_data") THEN Raise(r, "UnboundLocalError")
       ELSE LET table  == locals[r]["rides_table"]
                role   == locals[r]["request_unicorn_role"]
                policy == Child(role, "DefaultPolicy")
                stmt   == WriteDataStatement(table) IN
            /\ app' = [app EXCEPT ![r] =
                   IF HasNode(@, policy)
                   THEN [@ EXCEPT ![policy].props.statements = Append(@, stmt)]
                   ELSE AddNodes(@, policy :> Node("iam.Policy",
                                     [roles |-> {role}, statements |-> << stmt >>]))]
            /\ Advance(r)
            /\ UNCHANGED <<locals, err, assembly>>

RequestUnicorn(r) ==
    LET path == Child(StackPath, ConstructId.request_unicorn) IN
    Declare(r, "request_unicorn",
            path :> Node("lambda.Function", RequestUnicornProps(locals[r]["request_unicorn_role"])),
            "request_unicorn", path)

(* The RestApi comes with its root resource, the child 'Default'. *)
RideApiGw(r) ==
    LET path == Child(StackPath, ConstructId.ride_api_gw) IN
    Declare(r, "ride_api_gw",
            (path :> Node("apigateway.RestApi", RideApiGwProps))
            @@ (Child(path, "Default") :>
                   Node("apigateway.Resource", [path |-> "/", rest_api |-> path])),
            "ride_api_gw", path)

RideApiGwLambdaIntegration(r) ==
    Declare(r, "ride_api_gw_lambda_integration",
            EmptyTree,
            "ride_api_gw_lambda_integration", LambdaIntegration(locals[r]["request_unicorn"]))

(* ride_api_gw.root.add_resource('ride') *)
PostRideResource(r) ==
    LET api  == locals[r]["ride_api_gw"]
        root == Child(api, "Default")
        path == Child(root, ConstructId.post_ride_resource) IN
    Declare(r, "post_ride_resource",
            path :> Node("apigateway.Resource",
                         [path |-> "/ride", parent |-> root, rest_api |-> api]),
            "post_ride_resource", path)

PostRideResourceMethod(r) ==
    LET resource == locals[r]["post_ride_resource"] IN
    Declare(r, "post_ride_resource_method",
            MethodNodes(app[r], resource, ConstructId.post_method, "POST",
                        locals[r]["ride_api_gw_lambda_integration"], PostMethodResponses),
            "post_ride_resource_method", Child(resource, ConstructId.post_method))

RideApiGwAuthorizer(r) ==
    LET path == Child(StackPath, ConstructId.ride_api_gw_authorizer) IN
    Declare(r, "ride_api_gw_authorizer",
            path :> Node("AWS::ApiGateway::Authorizer", AuthorizerProps(locals[r]["ride_api_gw"])),
            "ride_api_gw_authorizer", path)

(* post_ride_resource_method.node.find_child('Resource') *)
PostRideResourceFix(r) ==
    /\ At(r, "post_ride_resource_fix")
    /\ IF ~ArgsBound(r, "post_ride_resource_fix") THEN Raise(r, "UnboundLocalError")
       ELSE LET child == Child(locals[r]["post_ride_resource_method"], "Resource") IN
            IF ~HasNode(app[r], child) THEN Raise(r, "NoSuchChild")
            ELSE /\ locals' = [locals EXCEPT ![r] = Bind(@, "post_ride_resource_fix", child)]
                 /\ Advance(r)
                 /\ UNCHANGED <<app, err, assembly>>

Override(r, step, target, prop, value) ==
    /\ At(r, step)
    /\ IF ~ArgsBound(r, step) THEN Raise(r, "UnboundLocalError")
       ELSE /\ app' = [app EXCEPT ![r][target] = AddPropertyOverride(@, prop, value)]
            /\ Advance(r)
            /\ UNCHANGED <<locals, err, assembly>>

OverrideAuthorizationType(r) ==
    Override(r, "override_authorization_type", locals[r]["post_ride_resource_fix"],
             "AuthorizationType", "COGNITO_USER_POOLS")

OverrideAuthorizerIdM(r) ==
    Override(r, "override_authorizer_id", locals[r]["post_ride_resource_fix"],
             "AuthorizerId", [Ref |-> LogicalId(locals[r]["post_ride_resource_fix"])])

OverrideAuthorizerId(r) ==
    Override(r, "override_authorizer_id", locals[r]["post_ride_resource_fix"],
             "AuthorizerId", [Ref |-> LogicalId(locals[r]["ride_api_gw_authorizer"])])

(* post_ride_resource.add_method('OPTIONS', MockIntegration(...), ...) *)
OptionsMethod(r) ==
    /\ At(r, "options_method")
    /\ IF ~ArgsBound(r, "options_method") THEN Raise(r, "UnboundLocalError")
       ELSE LET new == MethodNodes(app[r], locals[r]["post_ride_resource"],
                                   ConstructId.options_method, "OPTIONS",
                                   MockIntegration, OptionsMethodResponses) IN
            IF (DOMAIN new) \cap (DOMAIN app[r]) # {} THEN Raise(r, "DuplicateId")
            ELSE /\ app' = [app EXCEPT ![r] = AddNodes(@, new)]
                 /\ Advance(r)
                 /\ UNCHANGED <<locals, err, assembly>>

Output(r, step, id, value) ==
    LET path == Child(StackPath, id) IN
    Declare(r, step, path :> Node("CfnOutput", [value |-> value]), step, path)

AmplifyRepoUrl(r) ==
    Output(r, "amplify_repo_url", ConstructId.amplify_repo_url,
           Attr(locals[r]["amplify_repo"], "CloneUrlHttp"))

AppRepoUrl(r) ==
    Output(r, "app_repo_url", ConstructId.app_repo_url,
           Attr(locals[r]["app_repo"], "CloneUrlHttp"))

AmplifyDefaultDomain(r) ==
    Output(r, "amplify_default_domain", ConstructId.amplify_default_domain,
           Attr(locals[r]["amplify_static_site"], "DefaultDomain"))

(* value=request_unicorn_apigw.url reads the name this statement assigns. *)
RequestUnicornApigw(r) ==
    Output(r, "request_unicorn_apigw", ConstructId.request_unicorn_apigw,
           Attr(locals[r]["request_unicorn_apigw"], "url"))

-----------------------------------------------------------------------------

Init ==
    /\ pc = [r \in Runs |-> "app"]
    /\ app = [r \in Runs |-> EmptyTree]
    /\ locals = [r \in Runs |-> EmptyTree]
    /\ err = [r \in Runs |-> "none"]
    /\ assembly = [r \in Runs |-> << >>]

Next ==
    \E r \in Runs :
        \/ AppModule(r)
        \/ SuperInit(r)
        \/ AmplifyRepo(r)
        \/ AppRepo(r)
        \/ AmplifyRole(r)
        \/ AmplifyStaticSite(r)
        \/ Master(r)
        \/ AmplifyPolicy(r)
        \/ RidesTable(r)
        \/ RequestUnicornRole(r)
        \/ GrantWriteData(r)
        \/ RequestUnicorn(r)
        \/ RideApiGw(r)
        \/ RideApiGwLambdaIntegration(r)
        \/ PostRideResource(r)
        \/ PostRideResourceMethod(r)
        \/ RideApiGwAuthorizer(r)
        \/ PostRideResourceFix(r)
        \/ OverrideAuthorizationType(r)
        \/ OverrideAuthorizerId(r)
        \/ OptionsMethod(r)
        \/ AmplifyRepoUrl(r)
        \/ AppRepoUrl(r)
        \/ AmplifyDefaultDomain(r)
        \/ RequestUnicornApigw(r)

Spec == Init /\ [][Next]_vars

-----------------------------------------------------------------------------
(* Vocabulary of the properties. *)

Terminated(r) == err[r] # "none" \/ pc[r] = "done"

(* The statement `step` of run r has been executed to completion. *)
Past(r, step) == Idx(pc[r]) > Idx(step)

NodesOfType(g, type) == {p \in DOMAIN g : g[p].type = type}

ApiPath        == Child(StackPath, ConstructId.ride_api_gw)
RidePath       == Child(Child(ApiPath, "Default"), ConstructId.post_ride_resource)
PostPath       == Child(RidePath, ConstructId.post_method)
OptionsPath    == Child(RidePath, ConstructId.options_method)
AuthorizerPath == Child(StackPath, ConstructId.ride_api_gw_authorizer)
FunctionPath   == Child(StackPath, ConstructId.request_unicorn)
TablePath      == Child(StackPath, ConstructId.rides_table)

FourOutputIds == {"amplify-repo-url", "app-repo-url", "amplify-default-domain",
                  "request-unicorn-apigw"}

OutputIds(g) == {p[Len(p)] : p \in NodesOfType(g, "CfnOutput")}

(* Methods attached to the resource at path `resource`. *)
MethodsOf(g, resource) ==
    {p \in NodesOfType(g, "apigateway.Method") : g[p].props.resource = resource}

(* Allow-statements attached to `role` that let it act on the table. *)
TableGrants(g, role) ==
    {pi \in UNION {{<<p, i>> : i \in DOMAIN g[p].props.statements} :
                        p \in NodesOfType(g, "iam.Policy")} :
        LET policy == g[pi[1]].props
            stmt   == policy.statements[pi[2]] IN
        /\ role \in policy.roles
        /\ stmt.effect = "Allow"
        /\ \E a \in stmt.actions : a[1] \in {"dynamodb", "*"}
        /\ \E res \in stmt.resources :
               \/ res = Lit("*")
               \/ res.token = "GetAtt" /\ res.of = TablePath}

LambdaRoles(g) ==
    {p \in NodesOfType(g, "iam.Role") : g[p].props.role_name = "wild-rydes-lambda-role"}

-----------------------------------------------------------------------------
(* C1: every run of the entry point reaches synthesis: a run that has      *)
(* stopped has completed the constructor and called app.synth() on the     *)
(* container holding the stack.                                             *)
C1_ReachesSynth ==
    \A r \in Runs :
        Terminated(r) =>
            /\ pc[r] = "done"
            /\ Len(assembly[r]) = 1
            /\ StackPath \in DOMAIN assembly[r][1]

(* C2: once the run is over, exactly the four named outputs are present,   *)
(* each with a reference value: the two clone URLs, the default domain and *)
(* the API's URL.                                                           *)
C2_FourOutputs ==
    \A r \in Runs :
        Terminated(r) =>
            /\ OutputIds(app[r]) = FourOutputIds
            /\ \A p \in NodesOfType(app[r], "CfnOutput") :
                   app[r][p].props.value.token = "GetAtt"

(* C3: at every statement of the constructor, every local name the         *)
(* statement reads has been bound by an earlier statement.                  *)
C3_ReadsAreBound ==
    \A r \in Runs : Reads[pc[r]] \subseteq DOMAIN locals[r]

(* C4: construction fails only with a duplicate construct identifier or a  *)
(* malformed cross-resource reference; no other failure is reachable.       *)
C4_OnlyConfigurationErrors ==
    \A r \in Runs : err[r] \in {"none", "DuplicateId", "MalformedReference"}

(* C5: once the overrides are applied, the POST method on /ride renders    *)
(* AuthorizationType COGNITO_USER_POOLS and AuthorizerId as a Ref to the   *)
(* logical id of the one authorizer, which belongs to the same REST API;   *)
(* overrides exist only on the POST method, and only once the authorizer   *)
(* exists.                                                                  *)
C5_PostMethodAuthorizer ==
    \A r \in Runs :
        LET g   == app[r]
            cfn == Child(PostPath, "Resource") IN
        /\ \A p \in DOMAIN g :
               DOMAIN g[p].overrides # {} =>
                   /\ p = cfn
                   /\ g[p].props.HttpMethod = "POST"
               /\ ("AuthorizerId" \in DOMAIN g[p].overrides => HasNode(g, AuthorizerPath))
        /\ Past(r, "override_authorizer_id") =>
               /\ HasNode(g, cfn)
               /\ Rendered(g[cfn]).AuthorizationType = "COGNITO_USER_POOLS"
               /\ "AuthorizerId" \in DOMAIN Rendered(g[cfn])
               /\ Rendered(g[cfn]).AuthorizerId = [Ref |-> LogicalId(AuthorizerPath)]
               /\ NodesOfType(g, "AWS::ApiGateway::Authorizer") = {AuthorizerPath}
               /\ g[AuthorizerPath].props.Name = "wild-rydes-apigw-authorizer"
               /\ g[AuthorizerPath].props.RestApiId = Rendered(g[cfn]).RestApiId
               /\ HasNode(g, OptionsPath) =>
                      Rendered(g[Child(OptionsPath, "Resource")]).AuthorizationType = "NONE"

C5_Witness ==
    \E r \in Runs :
        /\ Past(r, "options_method")
        /\ "AuthorizerId" \in DOMAIN app[r][Child(PostPath, "Resource")].overrides

(* C6: /ride has the methods POST and OPTIONS and no others; POST is a     *)
(* proxy integration with the request-unicorn function carrying the        *)
(* Allow-Origin response parameter, OPTIONS is a mock integration with the *)
(* three static CORS headers and no reference to the function.              *)
C6_RideMethods ==
    \A r \in Runs :
        LET g == app[r] IN
        /\ MethodsOf(g, RidePath) \subseteq {PostPath, OptionsPath}
        /\ Past(r, "options_method") =>
               LET post == Rendered(g[Child(PostPath, "Resource")])
                   opts == Rendered(g[Child(OptionsPath, "Resource")]) IN
               /\ MethodsOf(g, RidePath) = {PostPath, OptionsPath}
               /\ post.HttpMethod = "POST"
               /\ post.Integration.kind = "Lambda"
               /\ post.Integration.handler = FunctionPath
               /\ g[FunctionPath].type = "lambda.Function"
               /\ post.Integration.proxy = TRUE
               /\ \E i \in DOMAIN post.Integration.integration_responses :
                      AllowOriginHeader \in
                          DOMAIN post.Integration.integration_responses[i].responseParameters
               /\ opts.HttpMethod = "OPTIONS"
               /\ opts.Integration.kind = "Mock"
               /\ "handler" \notin DOMAIN opts.Integration
               /\ \E i \in DOMAIN opts.Integration.integration_responses :
                      DOMAIN opts.Integration.integration_responses[i].responseParameters
                          = {AllowHeadersHeader, AllowOriginHeader, AllowMethodsHeader}

C6_Witness ==
    \E r \in Runs :
        /\ Past(r, "options_method")
        /\ Cardinality(MethodsOf(app[r], RidePath)) = 2

(* C7: the lambda role has exactly one grant on the Rides table and it     *)
(* allows writing; no other role has a grant on the table; the grant is    *)
(* on the role whenever the function bound to the role exists.              *)
C7_TableGrant ==
    \A r \in Runs :
        LET g == app[r] IN
        /\ \A role \in NodesOfType(g, "iam.Role") \ LambdaRoles(g) :
               TableGrants(g, role) = {}
        /\ Past(r, "grant_write_data") =>
               /\ Cardinality(LambdaRoles(g)) = 1
               /\ \A role \in LambdaRoles(g) :
                      /\ Cardinality(TableGrants(g, role)) = 1
                      /\ \A pi \in TableGrants(g, role) :
                             <<"dynamodb", "PutItem">>
                                 \in g[pi[1]].props.statements[pi[2]].actions
        /\ \A f \in NodesOfType(g, "lambda.Function") :
               /\ g[f].props.role \in LambdaRoles(g)
               /\ Cardinality(TableGrants(g, g[f].props.role)) = 1

C7_Witness ==
    \E r \in Runs :
        /\ HasNode(app[r], FunctionPath)
        /\ HasNode(app[r], Child(StackPath, ConstructId.amplify_policy))
        /\ \E role \in LambdaRoles(app[r]) : TableGrants(app[r], role) # {}

(* C8: the graph holds exactly one table: named Rides, partition key       *)
(* RideId of type string, removal policy DESTROY.                           *)
C8_OneTable ==
    \A r \in Runs :
        LET tables == NodesOfType(app[r], "dynamodb.Table") IN
        /\ Cardinality(tables) <= 1
        /\ Past(r, "rides_table") =>
               /\ Cardinality(tables) = 1
               /\ \A t \in tables :
                      /\ app[r][t].props.table_name = "Rides"
                      /\ app[r][t].props.partition_key = [name |-> "RideId", type |-> "STRING"]
                      /\ app[r][t].props.removal_policy = "DESTROY"

C8_Witness ==
    \E r \in Runs :
        /\ Terminated(r)
        /\ NodesOfType(app[r], "dynamodb.Table") = {TablePath}

StackLevelNames == {"amplify_repo", "app_repo", "amplify_role", "amplify_static_site",
                    "amplify_policy", "rides_table", "request_unicorn_role",
                    "request_unicorn", "ride_api_gw", "ride_api_gw_authorizer",
                    "amplify_repo_url", "app_repo_url", "amplify_default_domain",
                    "request_unicorn_apigw"}

C10_DistinctIds ==
    \A r \in Runs :
        LET done == {n \in StackLevelNames : Past(r, n)} IN
        /\ err[r] # "DuplicateId"
        /\ \A n \in done : HasNode(app[r], Child(StackPath, ConstructId[n]))
        /\ Cardinality({p \in DOMAIN app[r] : Len(p) = 2}) = Cardinality(done)
        /\ Past(r, "options_method") =>
               Cardinality(MethodsOf(app[r], RidePath)) = 2
        /\ \A n \in StackLevelNames \ done :
               ~HasNode(app[r], Child(StackPath, ConstructId[n]))

C10_Witness ==
    \E r \in Runs :
        /\ Past(r, "amplify_default_domain")
        /\ Cardinality({p \in DOMAIN app[r] : Len(p) = 2}) = 13

====
